---- MODULE Spec2Model ----
(***************************************************************************)
(* A model of the NeuroBlu feedback-processing pipeline                    *)
(* (src/neuroblu-feedback-processing/scripts):                             *)
(*   extract_feedback.py   FeedbackExtractor  (extraction, deduplication)  *)
(*   enrich_metadata.py    FeedbackEnricher   (classification, apply)      *)
(*   sync_to_sheets.py     FeedbackSheetsSync (store-level dedup, append)  *)
(*                                                                         *)
(* A Python string is a sequence of one-character strings, so that         *)
(* lower() and strip() are computed and not assumed.  A confidence is an   *)
(* integer number of hundredths (0.5 is 50).  Each stage has its own       *)
(* specification (SpecDedupe, SpecExtract, SpecMetadata, SpecEnrich,       *)
(* SpecEnrichLoad, SpecSync, SpecSyncTwice, SpecSyncShared, SpecSyncLive); *)
(* the variables of the other stages stay at their initial values.         *)
(***************************************************************************)
EXTENDS Integers, Sequences, FiniteSets, TLC

VARIABLES
    \* ---- FeedbackExtractor.deduplicate_feedback
    dd_pc,              \* "idle" | "done" | "again"
    feedback_items,     \* the candidates given to deduplicate_feedback
    existing_titles,    \* the known titles given to it
    unique_items,       \* what it returned
    again_titles,       \* the known titles of the second run over unique_items
    again_items,        \* what the second run returned
    \* ---- FeedbackExtractor.extract_feedback_with_claude
    ex_pc,              \* "idle" | "run" | "done"
    ex_notes,           \* number of notes still to process
    ex_response,        \* the oracle's outcome for the last note
    ex_returned,        \* what extract_feedback_with_claude returned for it
    all_feedback,       \* main(): the items accumulated over the notes
    \* ---- FeedbackExtractor.extract_meeting_metadata
    md_pc,              \* "idle" | "done"
    frontmatter,        \* parsed_note['frontmatter']: its date, created and
                        \* attendees keys
    file_name,          \* the note's file name; <<>> when there is none
    metadata,           \* the dict extract_meeting_metadata returned
    \* ---- FeedbackEnricher.enrich_batch
    en_pc,              \* "new" | "config_error" | "idle" | "loop" | "done" |
                        \* "raised"
    config,             \* the top-level sections of the loaded taxonomy
    en_items,           \* feedback_items of enrich_batch (mutated in place)
    en_i,               \* index of the next item to enrich
    dry_run,
    skip_low_confidence,
    en_response,        \* the oracle's outcome for the last item
    enrichment,         \* what enrich_feedback_item returned for the last item
    \* ---- FeedbackSheetsSync.batch_append
    sy_pc,              \* "idle" | "loaded" | "append" | "count" | "sleep" |
                        \* "returned" | "raised"
    deduplicate,        \* config['processing']['deduplicate']
    worksheet,          \* the sheet's data rows (below the header row)
    title_hash,         \* hash(title) of this process, cut as the id cuts it
    call_items,         \* main()'s feedback_items: the dicts, changed in place
    items,              \* the items of the current (possibly recursive) call,
                        \* as indices into call_items
    rows,               \* the rows about to be appended
    skipped_count,
    sheet_titles,       \* existing_titles of the current call
    title_read,         \* how its title read went: "none" | "ok" | "failed"
    appended,           \* the rows each append_rows call of this sync wrote
    appended_items,     \* the items (as indices) each of those calls wrote
    run,                \* 1, or 2 once batch_append is called a second time
    first_run,          \* how the first call ended, kept for the second
    written,            \* first and last sheet row of the latest append
    intruded,           \* rows other writers appended since the latest append
    attempts,           \* append_rows calls made by this sync
    sleeps,             \* total time slept by this sync
    api_errors,         \* the APIErrors the store raised during this sync
    result              \* the dict batch_append returned

dedupeVars  == <<dd_pc, feedback_items, existing_titles, unique_items,
                 again_titles, again_items>>
metaVars    == <<md_pc, frontmatter, file_name, metadata>>
extractVars == <<ex_pc, ex_notes, ex_response, ex_returned, all_feedback,
                 metaVars>>
enrichVars  == <<en_pc, config, en_items, en_i, dry_run, skip_low_confidence,
                 en_response, enrichment>>
syncVars    == <<sy_pc, deduplicate, worksheet, title_hash, call_items, items,
                 rows, skipped_count, sheet_titles, title_read, appended,
                 appended_items, run, first_run,
                 written, intruded, attempts, sleeps, api_errors, result>>
vars        == <<dedupeVars, extractVars, enrichVars, syncVars>>

(***************************************************************************)
(* Strings                                                                 *)
(***************************************************************************)
Whitespace == {" ", "\t"}

\* str.lower() on one character
LowerChar(c) ==
    CASE c = "A" -> "a"
      [] c = "B" -> "b"
      [] OTHER   -> c

\* str.lower()
Lower(s) == [k \in 1..Len(s) |-> LowerChar(s[k])]

RECURSIVE LStrip(_)
LStrip(s) ==
    IF s # <<>> /\ Head(s) \in Whitespace THEN LStrip(Tail(s)) ELSE s

RECURSIVE RStrip(_)
RStrip(s) ==
    IF s # <<>> /\ s[Len(s)] \in Whitespace
    THEN RStrip(SubSeq(s, 1, Len(s) - 1))
    ELSE s

\* str.strip()
Strip(s) == RStrip(LStrip(s))

\* The titles the candidates and the store are drawn from: case variants,
\* leading and trailing whitespace, inner whitespace, empty and blank titles.
TitleSamples ==
    { <<>>,
      <<" ">>,
      <<"a">>,
      <<"A", " ">>,
      <<"\t", "a">>,
      <<"b">>,
      <<"a", " ", "b">>,
      <<"A", " ", "B">> }

\* Known titles as a caller hands them over (not normalized).  The list
\* existing_titles is modelled as the set of its entries: the code only takes
\* set() of it.
KnownSamples == { <<"A">>, <<" ", "b">>, <<"a", " ", "B", " ">> }

(***************************************************************************)
(* FeedbackExtractor.deduplicate_feedback                                  *)
(***************************************************************************)
MaxBatch == 3

Item(t) == [title |-> t]

Batches(n) == UNION { [1..k -> {Item(t) : t \in TitleSamples}] : k \in 0..n }

\* a normalization that forgets lower()
NormalizeNoLower(title) == Strip(title)

\* title.lower().strip()
Normalize(title) == Strip(Lower(title))

\* seen_titles = set(title.lower().strip() for title in existing_titles)
SeenTitles(existing) == { Normalize(t) : t \in existing }

\* the loop with its test inverted: `if title_lower in seen_titles`
RECURSIVE DedupeLoopInverted(_, _, _, _)
DedupeLoopInverted(cands, i, seen, unique) ==
    IF i > Len(cands) THEN unique
    ELSE LET title_lower == Normalize(cands[i].title) IN
         IF title_lower \in seen
         THEN DedupeLoopInverted(cands, i + 1, seen \cup {title_lower},
                                 Append(unique, cands[i]))
         ELSE DedupeLoopInverted(cands, i + 1, seen \cup {title_lower}, unique)

\* the for loop of deduplicate_feedback, from candidate i on
RECURSIVE DedupeLoop(_, _, _, _)
DedupeLoop(cands, i, seen, unique) ==
    IF i > Len(cands) THEN unique
    ELSE LET title_lower == Normalize(cands[i].title) IN
         IF title_lower \notin seen
         THEN DedupeLoop(cands, i + 1, seen \cup {title_lower},
                         Append(unique, cands[i]))
         ELSE DedupeLoop(cands, i + 1, seen, unique)

\* a deduplication that starts from an empty seen_titles
DedupeIgnoringKnown(cands, existing) == DedupeLoop(cands, 1, {}, <<>>)

deduplicate_feedback(cands, existing) ==
    DedupeLoop(cands, 1, SeenTitles(existing), <<>>)

DedupeInit ==
    /\ dd_pc = "idle"
    /\ feedback_items = <<>>
    /\ existing_titles = {}
    /\ unique_items = <<>>
    /\ again_titles = {}
    /\ again_items = <<>>

\* a call deduplicate_feedback(cands, existing)
Dedupe(cands, existing) ==
    /\ feedback_items' = cands
    /\ existing_titles' = existing
    /\ unique_items' = deduplicate_feedback(cands, existing)
    /\ dd_pc' = "done"
    /\ UNCHANGED <<again_titles, again_items>>

\* a second call, over the first call's own output
DedupeAgain(existing) ==
    /\ again_titles' = existing
    /\ again_items' = deduplicate_feedback(unique_items, existing)
    /\ dd_pc' = "again"
    /\ UNCHANGED <<feedback_items, existing_titles, unique_items>>

DedupeCall ==
    /\ dd_pc = "idle"
    /\ \E cands \in Batches(MaxBatch), existing \in SUBSET KnownSamples :
           Dedupe(cands, existing)
    /\ UNCHANGED <<extractVars, enrichVars, syncVars>>

DedupeCallAgain ==
    /\ dd_pc = "done"
    /\ \E existing \in {existing_titles, {}} : DedupeAgain(existing)
    /\ UNCHANGED <<extractVars, enrichVars, syncVars>>

DedupeNext == DedupeCall \/ DedupeCallAgain

(***************************************************************************)
(* FeedbackExtractor.extract_feedback_with_claude                          *)
(***************************************************************************)
MaxNotes == 2
MaxArray == 2

\* the fields the extraction prompt says each item must have
RequiredFields ==
    {"title", "product", "category", "priority", "description", "use_case",
     "impact", "raw_context"}

\* the keys item.update({...}) stamps on every element
StampedFields ==
    {"meeting_type", "meeting_date", "attendees", "source", "source_url",
     "created_date", "updated_date", "status", "internal"}

\* An element of the oracle's array: a JSON object with some keys, or a JSON
\* value that is no object (a string, a number).
Element(isdict, keys) == [dict |-> isdict, keys |-> keys]

ElementSamples ==
    { Element(TRUE, RequiredFields \cup {"quote"}),
      Element(TRUE, RequiredFields \ {"title"}),
      Element(TRUE, {"title"}),
      Element(FALSE, {}) }

\* What messages.create plus json.loads yield: a transport failure, text
\* that is no JSON, or a JSON array.
ExtractResponses ==
    { [kind |-> "transport", value |-> <<>>],
      [kind |-> "nonjson", value |-> <<>>] }
    \cup { [kind |-> "json", value |-> v] :
             v \in UNION { [1..k -> ElementSamples] : k \in 0..MaxArray } }

\* item.update({...}) on a dict
Stamp(el) == Element(TRUE, el.keys \cup StampedFields)

\* json.JSONDecodeError and every other exception (a failed call; update()
\* on an element that is no dict) return []; nothing else is checked.
extract_feedback_with_claude(resp) ==
    IF resp.kind # "json" THEN <<>>
    ELSE IF \E k \in 1..Len(resp.value) : ~resp.value[k].dict
         THEN <<>>
         ELSE [k \in 1..Len(resp.value) |-> Stamp(resp.value[k])]

ExtractInit ==
    /\ ex_pc = "idle"
    /\ ex_notes = 0
    /\ ex_response = [kind |-> "transport", value |-> <<>>]
    /\ ex_returned = <<>>
    /\ all_feedback = <<>>

\* main(): the notes of the input path are processed one after the other
ExtractStart ==
    /\ ex_pc = "idle"
    /\ ex_notes' \in 1..MaxNotes
    /\ ex_pc' = "run"
    /\ UNCHANGED <<ex_response, ex_returned, all_feedback, metaVars>>
    /\ UNCHANGED <<dedupeVars, enrichVars, syncVars>>

\* process_note_file for the next note, and all_feedback.extend(...)
ExtractNote ==
    /\ ex_pc = "run"
    /\ ex_notes > 0
    /\ \E resp \in ExtractResponses :
           /\ ex_response' = resp
           /\ ex_returned' = extract_feedback_with_claude(resp)
           /\ all_feedback' = all_feedback \o extract_feedback_with_claude(resp)
    /\ ex_notes' = ex_notes - 1
    /\ UNCHANGED <<ex_pc, metaVars>>
    /\ UNCHANGED <<dedupeVars, enrichVars, syncVars>>

ExtractFinish ==
    /\ ex_pc = "run"
    /\ ex_notes = 0
    /\ ex_pc' = "done"
    /\ UNCHANGED <<ex_notes, ex_response, ex_returned, all_feedback, metaVars>>
    /\ UNCHANGED <<dedupeVars, enrichVars, syncVars>>

ExtractNext == ExtractStart \/ ExtractNote \/ ExtractFinish

(***************************************************************************)
(* FeedbackExtractor.extract_meeting_metadata: the meeting date and the    *)
(* attendees (title, meeting type and source url are read from their own   *)
(* keys and are left out)                                                  *)
(***************************************************************************)
Digits == {"0", "1", "2", "3", "4", "5", "6", "7", "8", "9"}

\* the value of a frontmatter key: missing, YAML null, or a text
NoKey == [present |-> FALSE, null |-> FALSE, text |-> <<>>]
NullValue == [present |-> TRUE, null |-> TRUE, text |-> <<>>]
Text(t) == [present |-> TRUE, null |-> FALSE, text |-> t]

\* str(value)
PyStr(v) == IF v.null THEN <<"N", "o", "n", "e">> ELSE v.text

DateGiven == <<"2", "0", "2", "4", "-", "0", "3", "-", "0", "1">>
DateCreated == <<"2", "0", "2", "4", "-", "0", "2", "-", "1", "1">>
NameWithDate == <<"2", "0", "2", "4", "-", "0", "1", "-", "2", "0", "_", "q", ".", "m", "d">>
NameWithoutDate == <<"q", "-", "2", "0", "2", "4", ".", "m", "d">>

\* datetime.now().strftime('%Y-%m-%d')
Today == <<"2", "0", "2", "6", "-", "1", "1", "-", "0", "1">>

\* r'(\d{4}-\d{2}-\d{2})' matches s from position i on
DateAt(s, i) ==
    /\ i + 9 <= Len(s)
    /\ \A k \in 0..9 : IF k \in {4, 7} THEN s[i + k] = "-" ELSE s[i + k] \in Digits

\* re.search(r'(\d{4}-\d{2}-\d{2})', s): group(1) of the leftmost match, <<>>
\* for no match
DateSearch(s) ==
    LET at == { i \in 1..Len(s) : DateAt(s, i) } IN
    IF at = {} THEN <<>>
    ELSE LET i == CHOOSE i \in at : \A j \in at : i <= j IN SubSeq(s, i, i + 9)

\* str.split(','): the pieces between the commas, empty ones included
RECURSIVE SplitCommas(_, _)
SplitCommas(s, piece) ==
    IF s = <<>> THEN <<piece>>
    ELSE IF Head(s) = "," THEN <<piece>> \o SplitCommas(Tail(s), <<>>)
    ELSE SplitCommas(Tail(s), Append(piece, Head(s)))

\* the value of the attendees key: missing, one string, or a list of strings
NoAttendees == [present |-> FALSE, isstr |-> FALSE, str |-> <<>>, list |-> <<>>]
AttendeeString(t) == [present |-> TRUE, isstr |-> TRUE, str |-> t, list |-> <<>>]
AttendeeList(l) == [present |-> TRUE, isstr |-> FALSE, str |-> <<>>, list |-> l]

AttendeeSamples ==
    { NoAttendees,
      AttendeeString(<<>>),
      AttendeeString(<<"x">>),
      AttendeeString(<<"x", ",", " ", "y">>),
      AttendeeString(<<"x", ",", " ", ",", "y">>),
      AttendeeString(<<" ", "x", ",">>),
      AttendeeList(<< <<"x">>, <<"y">> >>),
      AttendeeList(<< <<" ", "x">>, <<>> >>) }

DateFieldSamples(d) == { NoKey, NullValue, Text(<<>>), Text(d) }

FrontmatterSamples ==
    [date : DateFieldSamples(DateGiven),
     created : DateFieldSamples(DateCreated),
     attendees : AttendeeSamples]

FileNameSamples == { <<>>, NameWithDate, NameWithoutDate }

\* "Extract date (from frontmatter or filename)"; None is <<>>, which
\* `not meeting_date` takes like the empty string
MeetingDate(fm, name) ==
    LET found == IF fm.date.present THEN PyStr(fm.date)
                 ELSE IF fm.created.present THEN PyStr(fm.created)
                 ELSE IF name # <<>> THEN DateSearch(name)
                 ELSE <<>>
    IN  IF found = <<>> THEN Today ELSE found

\* "Extract attendees"
Attendees(fm) ==
    IF ~fm.attendees.present THEN <<>>
    ELSE IF fm.attendees.isstr
         THEN LET parts == SplitCommas(fm.attendees.str, <<>>)
              IN  [k \in 1..Len(parts) |-> Strip(parts[k])]
         ELSE fm.attendees.list

extract_meeting_metadata(fm, name) ==
    [meeting_date |-> MeetingDate(fm, name), attendees |-> Attendees(fm)]

MetadataInit ==
    /\ md_pc = "idle"
    /\ frontmatter = [date |-> NoKey, created |-> NoKey, attendees |-> NoAttendees]
    /\ file_name = <<>>
    /\ metadata = [meeting_date |-> <<>>, attendees |-> <<>>]

\* a call extract_meeting_metadata(parsed_note, file_name)
ExtractMetadata ==
    /\ md_pc = "idle"
    /\ \E fm \in FrontmatterSamples, name \in FileNameSamples :
           /\ frontmatter' = fm
           /\ file_name' = name
           /\ metadata' = extract_meeting_metadata(fm, name)
    /\ md_pc' = "done"
    /\ UNCHANGED <<ex_pc, ex_notes, ex_response, ex_returned, all_feedback>>
    /\ UNCHANGED <<dedupeVars, enrichVars, syncVars>>

MetadataNext == ExtractMetadata

(***************************************************************************)
(* FeedbackEnricher.enrich_feedback_item and enrich_batch                  *)
(***************************************************************************)
MaxEnrichItems == 2

\* self.segments and self.departments: the keys of the taxonomy's sections
Segments == {"Pharma", "Payer"}
Departments == {"Clinical", "HEOR"}

\* skip_low_confidence compares a confidence with 0.5
ConfidenceFloor == 50

EnrichRequired ==
    {"segment", "department", "enriched_tags", "segment_confidence",
     "department_confidence"}

\* What the oracle may answer for an item.  kind: the call failed
\* ("transport"), the text is no JSON ("nonjson"), or it is a JSON object
\* with the keys `present`.  tags_is_list: enriched_tags is a JSON array
\* (and not null or a string).  A list of tags is modelled as the set of its
\* entries: enrich_batch only ever takes set() of it.
OracleAnswer(kind, present, seg, dep, tags, islist, sc, dc) ==
    [kind |-> kind, present |-> present, segment |-> seg, department |-> dep,
     enriched_tags |-> tags, tags_is_list |-> islist,
     segment_confidence |-> sc, department_confidence |-> dc]

NoAnswer == OracleAnswer("none", {}, "", "", {}, TRUE, 0, 0)

ConfidenceSamples == {30, 50, 90}

\* "Maximum 10 total tags"
MaxTags == 10

\* as many tags as the oracle is asked to stay within
TenTags == {"t0", "t1", "t2", "t3", "t4", "t5", "t6", "t7", "t8", "t9"}

\* the top-level sections of taxonomy.yaml that the stages read
TaxonomySections ==
    {"segments", "departments", "products", "categories", "priorities", "claude"}

\* the taxonomy files a stage may be started on: complete, or one section short
ConfigSamples == {TaxonomySections} \cup { TaxonomySections \ {x} : x \in TaxonomySections }

\* the oracle was not asked: self.config['claude'] raised KeyError
NoOracle == OracleAnswer("keyerror", {}, "", "", {}, TRUE, 0, 0)

EnrichResponses ==
    { OracleAnswer("transport", {}, "", "", {}, TRUE, 0, 0),
      OracleAnswer("nonjson", {}, "", "", {}, TRUE, 0, 0) }
    \cup { OracleAnswer("json", EnrichRequired \ {f}, "Pharma", "Clinical",
                        {"rwd"}, TRUE, 90, 90) : f \in EnrichRequired }
    \cup { OracleAnswer("json", EnrichRequired, "Pharma", "HEOR",
                        {"rwd"}, FALSE, 90, 30) }
    \cup { OracleAnswer("json", EnrichRequired, seg, dep, tags, TRUE, sc, dc) :
             seg \in {"Pharma", "pharma", "NotARealSegment"},
             dep \in {"Clinical", "clinical"},
             tags \in {{"rwd", "ux"}},
             sc \in ConfidenceSamples, dc \in ConfidenceSamples }
    \cup { OracleAnswer("json", EnrichRequired, "Pharma", "Clinical",
                        TenTags, TRUE, 90, 90),
           OracleAnswer("json", EnrichRequired, "Payer", "HEOR",
                        {"rwd"}, TRUE, 150, 0 - 10) }

Enrichment(seg, dep, tags, islist, sc, dc, why) ==
    [segment |-> seg, department |-> dep, enriched_tags |-> tags,
     tags_is_list |-> islist, segment_confidence |-> sc,
     department_confidence |-> dc, reasoning |-> why]

\* the mock enrichment of dry_run
DryRunEnrichment ==
    Enrichment("Other", "Other", {"dry-run"}, TRUE, 50, 50, "Dry run mode")

\* the fallback enrichment of the two except clauses
Fallback(why) == Enrichment("Other", "Other", {}, TRUE, 0, 0, why)

\* a validation that compares case-insensitively
ValidateIgnoringCase(e) ==
    LET segok == e.segment \in Segments \cup {"pharma", "payer"}
        depok == e.department \in Departments \cup {"clinical", "heor"}
    IN  [e EXCEPT !.segment = IF segok THEN @ ELSE "Other",
                  !.segment_confidence = IF segok THEN @ ELSE 0,
                  !.department = IF depok THEN @ ELSE "Other",
                  !.department_confidence = IF depok THEN @ ELSE 0]

\* a validation that replaces the value and keeps the oracle's confidence
ValidateKeepingConfidence(e) ==
    [e EXCEPT !.segment = IF @ \in Segments THEN @ ELSE "Other",
              !.department = IF @ \in Departments THEN @ ELSE "Other"]

\* "Validate taxonomies": a value that is no key of the taxonomy section
\* becomes "Other" with confidence 0.0
ValidateTaxonomies(e) ==
    LET segok == e.segment \in Segments
        depok == e.department \in Departments
    IN  [e EXCEPT !.segment = IF segok THEN @ ELSE "Other",
                  !.segment_confidence = IF segok THEN @ ELSE 0,
                  !.department = IF depok THEN @ ELSE "Other",
                  !.department_confidence = IF depok THEN @ ELSE 0]

\* an enrichment without the check of the required fields
EnrichUnchecked(resp, dry) ==
    IF dry THEN DryRunEnrichment
    ELSE CASE resp.kind = "transport" -> Fallback("Error: call failed")
           [] resp.kind = "keyerror" -> Fallback("Error: 'claude'")
           [] resp.kind = "nonjson" -> Fallback("Parse error")
           [] OTHER ->
                ValidateTaxonomies(
                    Enrichment(resp.segment, resp.department,
                               resp.enriched_tags, resp.tags_is_list,
                               resp.segment_confidence,
                               resp.department_confidence, "oracle"))

enrich_feedback_item(resp, dry) ==
    IF dry THEN DryRunEnrichment
    ELSE CASE resp.kind = "transport" -> Fallback("Error: call failed")
           [] resp.kind = "keyerror" -> Fallback("Error: 'claude'")
           [] resp.kind = "nonjson" -> Fallback("Parse error")
           [] OTHER ->
                IF ~(EnrichRequired \subseteq resp.present)
                THEN Fallback("Error: Missing required field")
                ELSE ValidateTaxonomies(
                         Enrichment(resp.segment, resp.department,
                                    resp.enriched_tags, resp.tags_is_list,
                                    resp.segment_confidence,
                                    resp.department_confidence, "oracle"))

\* a floor that also replaces a confidence of exactly 0.5
LowConfidenceInclusive(confidence) == confidence <= ConfidenceFloor

\* "Handle low confidence"
LowConfidence(confidence) == confidence < ConfidenceFloor

\* "Apply enrichment to item" and "Handle low confidence"
ApplyClassification(item, e, skip) ==
    [item EXCEPT
        !.segment = IF skip /\ LowConfidence(e.segment_confidence)
                    THEN "Uncertain" ELSE e.segment,
        !.department = IF skip /\ LowConfidence(e.department_confidence)
                       THEN "Uncertain" ELSE e.department,
        !.segment_confidence = e.segment_confidence,
        !.department_confidence = e.department_confidence]

\* "Add enriched tags": list(set(existing_tags + enrichment['enriched_tags']))
MergeTags(item, e) == [item EXCEPT !.tags = @ \cup e.enriched_tags]

\* A feedback item as enrich_batch receives it: not yet classified
EnrichItem(tags) ==
    [tags |-> tags, segment |-> "", department |-> "",
     segment_confidence |-> 0, department_confidence |-> 0]

EnrichItemSamples == { EnrichItem({}), EnrichItem({"ux"}) }

\* FeedbackEnricher.__init__: the sections it reads are segments and
\* departments; a missing one raises KeyError out of the constructor
LoadTaxonomy(cfg) ==
    IF {"segments", "departments"} \subseteq cfg THEN "idle" ELSE "config_error"

EnrichAtRest ==
    /\ en_items = <<>>
    /\ en_i = 1
    /\ dry_run = FALSE
    /\ skip_low_confidence = FALSE
    /\ en_response = NoAnswer
    /\ enrichment = Fallback("")

\* before FeedbackEnricher(config_path) is called
EnrichNew ==
    /\ en_pc = "new"
    /\ config = {}
    /\ EnrichAtRest

\* an enricher built on a complete taxonomy
EnrichInit ==
    /\ en_pc = "idle"
    /\ config = TaxonomySections
    /\ en_items = <<>>
    /\ en_i = 1
    /\ dry_run = FALSE
    /\ skip_low_confidence = FALSE
    /\ en_response = NoAnswer
    /\ enrichment = Fallback("")

\* a call enrich_batch(its, dry_run=dry, skip_low_confidence=skip)
EnrichBatch(its, dry, skip) ==
    /\ en_items' = its
    /\ dry_run' = dry
    /\ skip_low_confidence' = skip
    /\ en_i' = 1
    /\ en_pc' = "loop"
    /\ UNCHANGED <<config, en_response, enrichment>>

\* one pass of the for loop: enrich_feedback_item, then the apply
EnrichOne(resp) ==
    /\ LET e == enrich_feedback_item(resp, dry_run)
           classified == ApplyClassification(en_items[en_i], e,
                                             skip_low_confidence)
       IN  /\ en_response' = resp
           /\ enrichment' = e
           /\ IF e.tags_is_list
              THEN /\ en_items' = [en_items EXCEPT ![en_i] = MergeTags(classified, e)]
                   /\ en_i' = en_i + 1
                   /\ en_pc' = "loop"
              ELSE \* existing_tags + enrichment['enriched_tags'] raises TypeError
                   /\ en_items' = [en_items EXCEPT ![en_i] = classified]
                   /\ en_i' = en_i
                   /\ en_pc' = "raised"
    /\ UNCHANGED <<config, dry_run, skip_low_confidence>>

\* main(): enricher = FeedbackEnricher(config_path=args.config)
NewEnricher ==
    /\ en_pc = "new"
    /\ \E cfg \in ConfigSamples :
           /\ config' = cfg
           /\ en_pc' = LoadTaxonomy(cfg)
    /\ UNCHANGED <<en_items, en_i, dry_run, skip_low_confidence, en_response,
                   enrichment>>
    /\ UNCHANGED <<dedupeVars, extractVars, syncVars>>

EnrichCall ==
    /\ en_pc = "idle"
    /\ \E its \in UNION { [1..k -> EnrichItemSamples] : k \in 0..MaxEnrichItems },
          dry \in BOOLEAN, skip \in BOOLEAN : EnrichBatch(its, dry, skip)
    /\ UNCHANGED <<dedupeVars, extractVars, syncVars>>

\* the oracle is not called in a dry run, nor when the arguments of the call
\* cannot be read from the taxonomy
EnrichStep ==
    /\ en_pc = "loop"
    /\ en_i <= Len(en_items)
    /\ \E resp \in (IF dry_run THEN {NoAnswer}
                     ELSE IF "claude" \notin config THEN {NoOracle}
                     ELSE EnrichResponses) :
           EnrichOne(resp)
    /\ UNCHANGED <<dedupeVars, extractVars, syncVars>>

\* return enriched_items
EnrichReturn ==
    /\ en_pc = "loop"
    /\ en_i > Len(en_items)
    /\ en_pc' = "done"
    /\ UNCHANGED <<config, en_items, en_i, dry_run, skip_low_confidence,
                   en_response, enrichment>>
    /\ UNCHANGED <<dedupeVars, extractVars, syncVars>>

EnrichNext == EnrichCall \/ EnrichStep \/ EnrichReturn

EnrichLoadNext == NewEnricher \/ EnrichNext

(***************************************************************************)
(* FeedbackSheetsSync.batch_append                                         *)
(***************************************************************************)
MaxSyncItems == 2
MaxRateLimits == 2
MaxOtherRows == 1

\* time.sleep(60)
BackoffSeconds == 60

\* item.get('title', '')[:100]
TitleColumnWidth == 100

Min(a, b) == IF a < b THEN a ELSE b

\* title.strip().lower()
StripLower(title) == Lower(Strip(title))

\* an item without the key 'id', or with an empty one
NoId == <<>>

\* datetime.now(), in seconds since main() started: in the model only
\* time.sleep lets time pass
Now == sleeps

\* the characters of str(hash(title)) that survive the cut [:20]
HashPrefixes == {"17", "-4"}

\* f"FB-{timestamp}-{hash(title)}"[:20]
GenId(ts, hp) == <<"FB", ts, hp>>

\* an id written by an earlier run
EarlierId == GenId(0 - BackoffSeconds, "42")

SyncItem(t, id) == [title |-> t, id |-> id]

\* the titles of the items a sync is given: fresh, a case and whitespace
\* variant of a stored one, blank
SyncTitleSamples == { <<"a">>, <<"A", " ">>, <<" ">> }

\* the input file's items: without an id, as the earlier stages write them,
\* and one that brings its id
SyncItemSamples ==
    { SyncItem(t, NoId) : t \in SyncTitleSamples } \cup { SyncItem(<<"a">>, EarlierId) }

\* a title one character longer than its cell
LongTitle == [k \in 1..(TitleColumnWidth + 1) |-> "a"]

\* items without an id whose titles are fresh, blank, empty or too long
TitleBatches(n) ==
    UNION { [1..k -> { SyncItem(t, NoId) :
                         t \in { <<"a">>, <<" ">>, <<>>, LongTitle } }] : k \in 0..n }

SyncBatches(n) == UNION { [1..k -> SyncItemSamples] : k \in 0..n }

\* a format_row that stamps a new id on every call
AlwaysNewId(item, ts, hp) == [item EXCEPT !.id = GenId(ts, hp)]

\* format_row, the in-place part: an id for the item that has none
WithId(item, ts, hp) ==
    IF item.id = NoId THEN [item EXCEPT !.id = GenId(ts, hp)] ELSE item

\* format_row, the returned row: the id cell (column A) and the title cell
\* (column B) of an item that has its id
format_row(item) ==
    [id |-> item.id,
     title |-> SubSeq(item.title, 1, Min(Len(item.title), TitleColumnWidth))]

\* the sheets a sync may find: empty, or rows written earlier
WorksheetSamples ==
    { <<>>,
      << [id |-> EarlierId, title |-> <<"a">>] >>,
      << [id |-> EarlierId, title |-> <<"A", " ", "B">>],
         [id |-> EarlierId, title |-> <<" ">>] >> }

\* a row appended by another writer of the sheet
OtherRow == [id |-> EarlierId, title |-> <<"b">>]

\* an exception handler that answers with the sheet's titles all the same
ReadRegardless(ws, readok) ==
    LET cells == [k \in 1..Len(ws) |-> ws[k].title]
        filled == SelectSeq(cells, LAMBDA t : Strip(t) # <<>>)
    IN  [k \in 1..Len(filled) |-> StripLower(filled[k])]

\* get_existing_titles: column B below the header, blank cells dropped,
\* each title stripped and lowercased; [] when the read fails
get_existing_titles(ws, readok) ==
    IF readok
    THEN LET cells == [k \in 1..Len(ws) |-> ws[k].title]
             filled == SelectSeq(cells, LAMBDA t : Strip(t) # <<>>)
         IN  [k \in 1..Len(filled) |-> StripLower(filled[k])]
    ELSE <<>>

check_duplicate(title, existing) ==
    \E k \in 1..Len(existing) : StripLower(title) = existing[k]

\* batch_append up to the append, on the items refs of the objects objs: the
\* early return for no items, the row of every item, the duplicate filter
\* against the store's titles, the early return when no row is left
Prepare(objs, refs, dedup, ws, readok) ==
    IF refs = <<>>
    THEN [returns |-> TRUE, items |-> refs, rows |-> <<>>, skipped |-> 0,
          existing |-> <<>>, read |-> "none"]
    ELSE IF dedup
         THEN LET existing == get_existing_titles(ws, readok)
                  kept == SelectSeq(refs,
                              LAMBDA r : ~check_duplicate(objs[r].title, existing))
              IN  [returns |-> kept = <<>>,
                   items |-> kept,
                   rows |-> [k \in 1..Len(kept) |-> format_row(objs[kept[k]])],
                   skipped |-> Len(refs) - Len(kept),
                   existing |-> existing,
                   read |-> IF readok THEN "ok" ELSE "failed"]
         ELSE [returns |-> FALSE,
               items |-> refs,
               rows |-> [k \in 1..Len(refs) |-> format_row(objs[refs[k]])],
               skipped |-> 0,
               existing |-> <<>>,
               read |-> "none"]

NoResult == [synced |-> 0, skipped |-> 0, rows |-> <<>>]

\* What a call of the store may do: succeed, raise an APIError that says
\* RATE_LIMIT_EXCEEDED, or raise another APIError.  The store reports the
\* rate limit at most MaxRateLimits times during one sync.
StoreOutcomes ==
    {"ok", "error"}
    \cup (IF Len(SelectSeq(api_errors, LAMBDA e : e = "rate_limit")) < MaxRateLimits
          THEN {"rate_limit"} ELSE {})

\* a handler that retries once and raises when the rate limit recurs
OnAPIErrorOnce(err) ==
    IF err = "rate_limit" /\ sleeps = 0 THEN "sleep" ELSE "raised"

\* a handler that raises every APIError, the rate limit too
OnAPIErrorNever(err) == "raised"

\* a handler that takes every APIError for a rate limit
OnAPIErrorAlways(err) == "sleep"

\* except gspread.exceptions.APIError: sleep and call again on
\* RATE_LIMIT_EXCEEDED, raise anything else
OnAPIError(err) == IF err = "rate_limit" THEN "sleep" ELSE "raised"

\* a range that starts one row early
RowRangeFromLast(last_row, n) == <<last_row - n, last_row>>

\* first_new_row = last_row - len(rows) + 1; the rows first_new_row..last_row,
\* kept as their two ends
RowRange(last_row, n) == <<last_row - n + 1, last_row>>

\* no first call has ended yet
NoRun == [result |-> NoResult, read |-> "none", errors |-> <<>>, appends |-> 0]

SyncIdle ==
    /\ sy_pc = "idle"
    /\ title_hash = <<>>
    /\ call_items = <<>>
    /\ items = <<>>
    /\ rows = <<>>
    /\ skipped_count = 0
    /\ sheet_titles = <<>>
    /\ title_read = "none"
    /\ appended = <<>>
    /\ appended_items = <<>>
    /\ run = 1
    /\ first_run = NoRun
    /\ written = <<0, 0>>
    /\ intruded = 0
    /\ attempts = 0
    /\ sleeps = 0
    /\ api_errors = <<>>
    /\ result = NoResult

\* the configuration read by __init__, and the sheet as the sync finds it
SyncInit ==
    /\ deduplicate \in BOOLEAN
    /\ worksheet \in WorksheetSamples
    /\ SyncIdle

\* main(): feedback_items = json.load(f); hash() of this process is fixed for
\* the titles it will meet
LoadFrom(batches) ==
    \E its \in batches :
        /\ call_items' = its
        /\ title_hash' \in [ { its[k].title : k \in 1..Len(its) } -> HashPrefixes ]

LoadItems ==
    /\ sy_pc = "idle"
    /\ LoadFrom(SyncBatches(MaxSyncItems))
    /\ sy_pc' = "loaded"
    /\ UNCHANGED <<deduplicate, worksheet, items, rows, skipped_count,
                   sheet_titles, title_read, appended, appended_items, run,
                   first_run, written, intruded, attempts, sleeps, api_errors,
                   result>>
    /\ UNCHANGED <<dedupeVars, extractVars, enrichVars>>

\* the same, from a file whose titles may be empty or too long for their cell
LoadAnyTitle ==
    /\ sy_pc = "idle"
    /\ LoadFrom(TitleBatches(MaxSyncItems))
    /\ sy_pc' = "loaded"
    /\ UNCHANGED <<deduplicate, worksheet, items, rows, skipped_count,
                   sheet_titles, title_read, appended, appended_items, run,
                   first_run, written, intruded, attempts, sleeps, api_errors,
                   result>>
    /\ UNCHANGED <<dedupeVars, extractVars, enrichVars>>

\* the body of batch_append up to the try block, called at time ts on the
\* items refs: format_row gives every one of them its id, in place
Enter(refs, readok, ts) ==
    LET objs == [k \in 1..Len(call_items) |->
                    IF \E j \in 1..Len(refs) : refs[j] = k
                    THEN WithId(call_items[k], ts, title_hash[call_items[k].title])
                    ELSE call_items[k]]
        p == Prepare(objs, refs, deduplicate, worksheet, readok)
    IN  /\ call_items' = objs
        /\ items' = p.items
        /\ rows' = p.rows
        /\ skipped_count' = p.skipped
        /\ sheet_titles' = p.existing
        /\ title_read' = p.read
        /\ IF p.returns
           THEN /\ sy_pc' = "returned"
                /\ result' = [synced |-> 0, skipped |-> p.skipped, rows |-> <<>>]
           ELSE /\ sy_pc' = "append"
                /\ UNCHANGED result

\* the call syncer.batch_append(feedback_items) of main()
BatchAppend ==
    /\ sy_pc = "loaded"
    /\ \E readok \in BOOLEAN :
           Enter([k \in 1..Len(call_items) |-> k], readok, Now)
    /\ UNCHANGED <<deduplicate, worksheet, title_hash, appended,
                   appended_items, run, first_run, written,
                   intruded, attempts, sleeps, api_errors>>
    /\ UNCHANGED <<dedupeVars, extractVars, enrichVars>>

\* self.worksheet.append_rows(rows): all rows are written, or the store
\* raises an APIError and writes none
AppendRows ==
    /\ sy_pc = "append"
    /\ attempts' = attempts + 1
    /\ \E outcome \in StoreOutcomes :
           IF outcome = "ok"
           THEN /\ worksheet' = worksheet \o rows
                /\ appended' = Append(appended, rows)
                /\ appended_items' = Append(appended_items, items)
                /\ written' = <<Len(worksheet) + 2, Len(worksheet) + 1 + Len(rows)>>
                /\ intruded' = 0
                /\ sy_pc' = "count"
                /\ UNCHANGED api_errors
           ELSE /\ api_errors' = Append(api_errors, outcome)
                /\ sy_pc' = OnAPIError(outcome)
                /\ UNCHANGED <<worksheet, appended, appended_items, written,
                               intruded>>
    /\ UNCHANGED <<deduplicate, title_hash, call_items, items, rows,
                   skipped_count, sheet_titles, title_read, sleeps, result,
                   run, first_run>>
    /\ UNCHANGED <<dedupeVars, extractVars, enrichVars>>

\* len(self.worksheet.col_values(1)) and the return of the result; the
\* header row is row 1
CountRows ==
    /\ sy_pc = "count"
    /\ \E outcome \in StoreOutcomes :
           IF outcome = "ok"
           THEN LET last_row == Len(worksheet) + 1
                IN  /\ result' = [synced |-> Len(rows), skipped |-> skipped_count,
                                  rows |-> RowRange(last_row, Len(rows))]
                    /\ sy_pc' = "returned"
                    /\ UNCHANGED api_errors
           ELSE /\ api_errors' = Append(api_errors, outcome)
                /\ sy_pc' = OnAPIError(outcome)
                /\ UNCHANGED result
    /\ UNCHANGED <<deduplicate, worksheet, title_hash, call_items, items, rows,
                   skipped_count, sheet_titles, title_read, appended,
                   appended_items, run, first_run, written,
                   intruded, attempts, sleeps>>
    /\ UNCHANGED <<dedupeVars, extractVars, enrichVars>>

\* time.sleep(60); return self.batch_append(items, batch_size)
SleepAndRetry ==
    /\ sy_pc = "sleep"
    /\ sleeps' = sleeps + BackoffSeconds
    /\ \E readok \in BOOLEAN : Enter(items, readok, Now + BackoffSeconds)
    /\ UNCHANGED <<deduplicate, worksheet, title_hash, appended,
                   appended_items, run, first_run, written,
                   intruded, attempts, api_errors>>
    /\ UNCHANGED <<dedupeVars, extractVars, enrichVars>>

\* the rows of the sheet that another writer appended
OtherRows == { k \in 1..Len(worksheet) : worksheet[k] = OtherRow }

\* another writer of the same sheet appends a row between the sync's
\* append_rows and its col_values(1)
OtherWriter ==
    /\ sy_pc = "count"
    /\ Cardinality(OtherRows) < MaxOtherRows
    /\ worksheet' = Append(worksheet, OtherRow)
    /\ intruded' = intruded + 1
    /\ UNCHANGED <<sy_pc, deduplicate, title_hash, call_items, items, rows,
                   skipped_count, sheet_titles, title_read, appended,
                   appended_items, run, first_run, written,
                   attempts, sleeps, api_errors, result>>
    /\ UNCHANGED <<dedupeVars, extractVars, enrichVars>>

\* syncer.batch_append(feedback_items) is called once more on the same items
\* after it returned; the counters of the first call run on
RunAgain ==
    /\ sy_pc = "returned"
    /\ run = 1
    /\ run' = 2
    /\ first_run' = [result |-> result, read |-> title_read,
                     errors |-> api_errors, appends |-> Len(appended)]
    /\ sy_pc' = "loaded"
    /\ UNCHANGED <<deduplicate, worksheet, title_hash, call_items, items, rows,
                   skipped_count, sheet_titles, title_read, appended,
                   appended_items, written, intruded, attempts, sleeps,
                   api_errors, result>>
    /\ UNCHANGED <<dedupeVars, extractVars, enrichVars>>

SyncNext == LoadItems \/ BatchAppend \/ AppendRows \/ CountRows \/ SleepAndRetry

SyncSharedNext == SyncNext \/ OtherWriter

SyncTwiceNext ==
    LoadAnyTitle \/ BatchAppend \/ AppendRows \/ CountRows \/ SleepAndRetry
    \/ RunAgain

(***************************************************************************)
(* Specifications                                                          *)
(***************************************************************************)
\* the stages at rest; the sync stage's configuration and sheet are fixed
Init ==
    /\ DedupeInit /\ ExtractInit /\ MetadataInit /\ EnrichInit /\ SyncIdle
    /\ deduplicate = TRUE
    /\ worksheet = <<>>

\* the same, with every configuration and sheet the sync may start from
InitSync == DedupeInit /\ ExtractInit /\ MetadataInit /\ EnrichInit /\ SyncInit

SpecDedupe == Init /\ [][DedupeNext]_vars

SpecExtract == Init /\ [][ExtractNext]_vars

SpecMetadata == Init /\ [][MetadataNext]_vars

SpecEnrich == Init /\ [][EnrichNext]_vars

\* the enrichment stage before its constructor has run
InitLoad ==
    /\ DedupeInit /\ ExtractInit /\ MetadataInit /\ EnrichNew /\ SyncIdle
    /\ deduplicate = TRUE
    /\ worksheet = <<>>

\* the enrichment stage from the loading of its taxonomy on
SpecEnrichLoad == InitLoad /\ [][EnrichLoadNext]_vars

SpecSync == InitSync /\ [][SyncNext]_vars

\* a deduplicating sync and every sheet it may start from
InitShared ==
    /\ DedupeInit /\ ExtractInit /\ MetadataInit /\ EnrichInit /\ SyncIdle
    /\ deduplicate = TRUE
    /\ worksheet \in WorksheetSamples

\* two calls of a deduplicating sync, one after the other
SpecSyncTwice == InitShared /\ [][SyncTwiceNext]_vars

\* the sync on a sheet that another writer appends to
SpecSyncShared == InitShared /\ [][SyncSharedNext]_vars

\* either configuration, on a sheet that holds one row
InitLive ==
    /\ DedupeInit /\ ExtractInit /\ MetadataInit /\ EnrichInit /\ SyncIdle
    /\ deduplicate \in BOOLEAN
    /\ worksheet = << [id |-> EarlierId, title |-> <<"a">>] >>

\* the sync as one thread that runs on while it can: main() and batch_append
\* are straight-line code whose every call comes back or raises
SpecSyncLive == InitLive /\ [][SyncNext]_vars /\ WF_vars(SyncNext)

(***************************************************************************)
(* Properties                                                              *)
(***************************************************************************)

\* The normalized form of a title as the specification words it: the span
\* from the first to the last character that is no whitespace, lowercased.
NormalForm(title) ==
    LET inked == { k \in 1..Len(title) : title[k] \notin Whitespace } IN
    IF inked = {} THEN <<>>
    ELSE LET lo == CHOOSE k \in inked : \A m \in inked : k <= m
             hi == CHOOSE k \in inked : \A m \in inked : m <= k
         IN  [k \in 1..(hi - lo + 1) |-> LowerChar(title[lo + k - 1])]

KnownForms == { NormalForm(t) : t \in existing_titles }

\* C1: deduplicate_feedback returns at most as many items as it was given;
\* in its result every normalized title occurs exactly once and is the
\* normalized form of no known title.
C1_DedupeUniqueAndUnknown ==
    dd_pc \in {"done", "again"} =>
        /\ Len(unique_items) <= Len(feedback_items)
        /\ \A i, j \in 1..Len(unique_items) :
               i # j => NormalForm(unique_items[i].title)
                            # NormalForm(unique_items[j].title)
        /\ \A i \in 1..Len(unique_items) :
               NormalForm(unique_items[i].title) \notin KnownForms

\* a call that dropped a candidate and kept two others, with known titles
C1_Witness ==
    /\ dd_pc = "done"
    /\ existing_titles # {}
    /\ Len(feedback_items) = 3
    /\ Len(unique_items) = 2

\* the candidates that are neither known nor preceded by a candidate of the
\* same normalized title
Survivors ==
    { i \in 1..Len(feedback_items) :
        /\ NormalForm(feedback_items[i].title) \notin KnownForms
        /\ \A j \in 1..(i - 1) :
               NormalForm(feedback_items[j].title)
                   # NormalForm(feedback_items[i].title) }

\* C6: the result of deduplicate_feedback is exactly the subsequence of the
\* candidates that holds each first occurrence of a normalized title that is
\* not known, in input order.
C6_DedupeIsFirstOccurrences ==
    dd_pc \in {"done", "again"} =>
        /\ Len(unique_items) = Cardinality(Survivors)
        /\ \A k \in 1..Len(unique_items) :
               \E i \in Survivors :
                   /\ Cardinality({ j \in Survivors : j <= i }) = k
                   /\ unique_items[k] = feedback_items[i]

\* the first and the third candidate survive, the second is a later
\* occurrence of the first one's title in another spelling
C6_Witness ==
    /\ dd_pc = "done"
    /\ Survivors = {1, 3}
    /\ feedback_items[2].title # feedback_items[1].title
    /\ unique_items = <<feedback_items[1], feedback_items[3]>>

\* C7: running deduplicate_feedback over its own output, with the same
\* known titles or with none, returns that output unchanged.
C7_DedupeIdempotent ==
    dd_pc = "again" => again_items = unique_items

\* a second run with no known titles, after a first run that dropped a
\* known title and a duplicate
C7_Witness ==
    /\ dd_pc = "again"
    /\ existing_titles # {}
    /\ again_titles = {}
    /\ Len(feedback_items) = 3
    /\ Len(unique_items) = 1
    /\ again_items = unique_items

\* the item enrich_batch applied the last enrichment to
LastEnriched ==
    IF en_pc = "raised" THEN en_items[en_i] ELSE en_items[en_i - 1]

HasEnriched == en_pc = "raised" \/ (en_pc \in {"loop", "done"} /\ en_i > 1)

OracleFailed ==
    \/ en_response.kind \in {"transport", "nonjson"}
    \/ en_response.kind = "json" /\ ~(EnrichRequired \subseteq en_response.present)

\* C4: when the oracle call fails, answers no JSON or leaves out a required
\* field, enrich_feedback_item returns the fallback ("Other", "Other", no
\* tags, both confidences 0.0, a reasoning that names the failure) and
\* enrich_batch goes on to the next item.
C4_OracleFailureFallsBack ==
    (HasEnriched /\ OracleFailed) =>
        /\ enrichment.segment = "Other"
        /\ enrichment.department = "Other"
        /\ enrichment.enriched_tags = {}
        /\ enrichment.segment_confidence = 0
        /\ enrichment.department_confidence = 0
        /\ enrichment.reasoning =
               (CASE en_response.kind = "transport" -> "Error: call failed"
                  [] en_response.kind = "nonjson" -> "Parse error"
                  [] OTHER -> "Error: Missing required field")
        /\ en_pc # "raised"
        /\ en_i > 1
        /\ en_items[en_i - 1].segment \in {"Other", "Uncertain"}

\* the answer for the first of two items lacked a field, and the loop
\* stands before the second item
C4_Witness ==
    /\ en_pc = "loop"
    /\ Len(en_items) = 2
    /\ en_i = 2
    /\ en_response.kind = "json"
    /\ "segment_confidence" \notin en_response.present
    /\ enrichment.reasoning = "Error: Missing required field"

\* C5: once enrich_batch has applied an enrichment to an item, its segment
\* is a segment of the taxonomy, "Other" or "Uncertain", and its department
\* a department of the taxonomy, "Other" or "Uncertain".
C5_ClassificationInTaxonomy ==
    \A k \in 1..Len(en_items) :
        (k < en_i \/ (k = en_i /\ en_pc = "raised")) =>
            /\ en_items[k].segment \in Segments \cup {"Other", "Uncertain"}
            /\ en_items[k].department \in Departments \cup {"Other", "Uncertain"}

\* the oracle answered a segment and a department spelled in another case
C5_Witness ==
    /\ en_pc = "done"
    /\ Len(en_items) = 2
    /\ en_response.kind = "json"
    /\ en_response.segment = "pharma"
    /\ en_response.department = "clinical"
    /\ en_items[2].segment = "Other"
    /\ en_items[2].department = "Other"

CompleteAnswer ==
    /\ HasEnriched
    /\ en_response.kind = "json"
    /\ EnrichRequired \subseteq en_response.present

\* C8: a segment that is no exact member of the taxonomy's segments comes
\* back as "Other" with segment_confidence 0.0; a member comes back
\* unchanged with the oracle's confidence; the same holds, independently,
\* of the department.
C8_PostValidation ==
    CompleteAnswer =>
        /\ IF en_response.segment \in Segments
           THEN /\ enrichment.segment = en_response.segment
                /\ enrichment.segment_confidence = en_response.segment_confidence
           ELSE /\ enrichment.segment = "Other"
                /\ enrichment.segment_confidence = 0
        /\ IF en_response.department \in Departments
           THEN /\ enrichment.department = en_response.department
                /\ enrichment.department_confidence
                       = en_response.department_confidence
           ELSE /\ enrichment.department = "Other"
                /\ enrichment.department_confidence = 0

\* "NotARealSegment" with confidence 0.9 beside a valid department
C8_Witness ==
    /\ CompleteAnswer
    /\ en_response.segment = "NotARealSegment"
    /\ en_response.segment_confidence = 90
    /\ enrichment.segment = "Other"
    /\ enrichment.segment_confidence = 0
    /\ enrichment.department = "Clinical"
    /\ enrichment.department_confidence = 90

\* C9: with the confidence floor enabled the item's segment (department) is
\* "Uncertain" exactly when the confidence is below 0.5 and the classified
\* value otherwise; with the floor disabled it is the classified value and
\* never "Uncertain".
C9_ConfidenceFloor ==
    HasEnriched =>
        /\ LastEnriched.segment =
               (IF skip_low_confidence /\ enrichment.segment_confidence < 50
                THEN "Uncertain" ELSE enrichment.segment)
        /\ LastEnriched.department =
               (IF skip_low_confidence /\ enrichment.department_confidence < 50
                THEN "Uncertain" ELSE enrichment.department)
        /\ enrichment.segment # "Uncertain"
        /\ enrichment.department # "Uncertain"

\* floor enabled, department "Clinical" at 0.3 beside segment "Pharma" at 0.5
C9_Witness ==
    /\ HasEnriched
    /\ skip_low_confidence
    /\ enrichment.department = "Clinical"
    /\ enrichment.department_confidence = 30
    /\ LastEnriched.department = "Uncertain"
    /\ enrichment.segment_confidence = 50
    /\ LastEnriched.segment = "Pharma"

\* C10: every element of the oracle's array is validated for the required
\* fields; one invalid element discards the whole note's extraction, so
\* every item extract_feedback_with_claude returns carries all of them.
C10_ExtractedItemsComplete ==
    /\ \A k \in 1..Len(ex_returned) : RequiredFields \subseteq ex_returned[k].keys
    /\ (\E k \in 1..Len(ex_response.value) :
            \/ ~ex_response.value[k].dict
            \/ ~(RequiredFields \subseteq ex_response.value[k].keys))
       => ex_returned = <<>>

\* C2: with deduplication enabled the rows one sync appends never hold two
\* rows of the same normalized title.
C2_NoDuplicateRowsInOneSync ==
    deduplicate =>
        \A a \in 1..Len(appended) :
            \A i, j \in 1..Len(appended[a]) :
                i # j => NormalForm(appended[a][i].title)
                             # NormalForm(appended[a][j].title)

RateLimits == Len(SelectSeq(api_errors, LAMBDA e : e = "rate_limit"))

\* C3 as stated: one sync call makes at most two append attempts, and a
\* rate limit that recurs on the retry is raised to the caller.
C3_AtMostTwoAttempts ==
    /\ attempts <= 2
    /\ RateLimits >= 2 => sy_pc = "raised"

\* C3, amended: every rate-limit condition, the first and each later one,
\* is answered with the 60-unit backoff and another call of batch_append;
\* a rate limit is never raised to the caller, and a sync makes at most one
\* append attempt more than the rate limits it met.
C3_RetryAfterEveryRateLimit ==
    /\ sleeps + (IF sy_pc = "sleep" THEN 60 ELSE 0) = 60 * RateLimits
    /\ attempts <= RateLimits + 1
    /\ sy_pc = "sleep" => api_errors[Len(api_errors)] = "rate_limit"
    /\ sy_pc = "raised" => api_errors[Len(api_errors)] = "error"

\* a sync that returned from its third append attempt, after two backoffs
C3_Witness ==
    /\ sy_pc = "returned"
    /\ attempts = 3
    /\ sleeps = 120
    /\ result.synced > 0

\* C11: when batch_append returns after an append of n rows, the range it
\* reports is [c - n + 1 .. c] for the row count c it read back.  That range is
\* the n sheet rows the append wrote when no other writer appended between
\* the append and the read, and it is another range when one did.
C11_ReportedRowRange ==
    (sy_pc = "returned" /\ result.synced > 0) =>
        LET n == result.synced
            c == Len(worksheet) + 1
        IN  /\ result.rows = <<c - n + 1, c>>
            /\ n = written[2] - written[1] + 1
            /\ \A k \in written[1]..written[2] :
                   worksheet[k - 1] = rows[k - written[1] + 1]
            /\ intruded = 0 => result.rows = written
            /\ intruded > 0 => result.rows # written

\* a sync returns a range that a concurrent writer's row has shifted
C11_Witness ==
    /\ sy_pc = "returned"
    /\ result.synced > 0
    /\ intruded > 0
    /\ result.rows # written
    /\ worksheet[Len(worksheet)] = OtherRow

\* C12: when the read of the title column fails, the call's known titles are
\* empty, no item is skipped, every item gets its row and goes to the append,
\* and the sync is not failed by it: it raises only on a store error of the
\* append or of the row count.
C12_TitleReadFailsOpen ==
    title_read = "failed" =>
        /\ sheet_titles = <<>>
        /\ skipped_count = 0
        /\ Len(rows) = Len(items)
        /\ rows # <<>>
        /\ sleeps = 0 => items = [k \in 1..Len(call_items) |-> k]
        /\ sy_pc \in {"append", "count", "sleep", "returned", "raised"}
        /\ sy_pc = "raised" =>
               api_errors # <<>> /\ api_errors[Len(api_errors)] = "error"
        /\ sy_pc = "returned" =>
               result.synced = Len(items) /\ result.skipped = 0

\* after a failed title read a sync has appended a title the sheet already had
C12_Witness ==
    /\ title_read = "failed"
    /\ sy_pc = "returned"
    /\ result.synced = 1
    /\ Len(worksheet) = 2
    /\ StripLower(worksheet[1].title) = StripLower(worksheet[2].title)

\* C13: once the store has raised an APIError that is no rate limit, the sync
\* has raised it to the caller and takes no further step: no sleep, no
\* further append attempt.
C13_OtherErrorsNotRetried ==
    (api_errors # <<>> /\ api_errors[Len(api_errors)] = "error") =>
        /\ sy_pc = "raised"
        /\ ~ENABLED SyncNext

\* the row count after a successful append raised such an error
C13_Witness ==
    /\ sy_pc = "raised"
    /\ api_errors[Len(api_errors)] = "error"
    /\ appended # <<>>
    /\ attempts = 1

\* C16: no step changes an id that an item has: the call from main(), the
\* repeated format_row of a retry and the retry's filter leave every
\* non-empty id as it is, and every row carries the id of its item.
C16_IdNeverReassigned ==
    [][sy_pc # "idle" =>
          /\ Len(call_items') = Len(call_items)
          /\ \A k \in 1..Len(call_items) :
                 call_items[k].id # NoId => call_items'[k].id = call_items[k].id
          /\ \A j \in 1..Len(rows') : rows'[j].id = call_items'[items'[j]].id]_vars

\* a retry formats again, a backoff later, an item whose id the first call
\* generated, next to one that brought its id
C16_Witness ==
    /\ sy_pc = "append"
    /\ sleeps = BackoffSeconds
    /\ \E j \in 1..Len(items) : call_items[items[j]].id[2] = 0
    /\ \E j \in 1..Len(items) : call_items[items[j]].id = EarlierId

\* the store's last word is a rate limit and the sync has not acted on it
Throttled ==
    /\ api_errors # <<>>
    /\ api_errors[Len(api_errors)] = "rate_limit"
    /\ sy_pc \in {"sleep", "raised"}

\* C18: every rate limit, the first as the last the store reports, is
\* followed by a retry (a further append attempt, or a return when the retry
\* finds nothing left to append); and once the store stops reporting the rate
\* limit the sync comes to an end, with a result or with the store's other
\* error.
C18_RetriesUntilStoreRelents ==
    /\ Throttled ~> (sy_pc \in {"append", "returned"})
    /\ <>(sy_pc \in {"returned", "raised"})

\* the store reported the rate limit as often as it may and the sync made one
\* more attempt, which got through
C18_Witness ==
    /\ RateLimits = MaxRateLimits
    /\ attempts = MaxRateLimits + 1
    /\ sy_pc = "returned"
    /\ result.synced > 0

\* C14: an item's tags number at most MaxTags once enrich_batch has merged
\* the enriched tags into them.
C14_AtMostTenTags ==
    \A k \in 1..Len(en_items) : Cardinality(en_items[k].tags) <= MaxTags

\* C15: the confidences enrich_batch stores on an item lie between 0.0 and
\* 1.0.
C15_ConfidencesInUnitRange ==
    \A k \in 1..Len(en_items) :
        /\ en_items[k].segment_confidence \in 0..100
        /\ en_items[k].department_confidence \in 0..100

\* C17: an enricher exists, and enriches, only on a taxonomy that has all its
\* sections; with a section missing the constructor has failed.
C17_IncompleteTaxonomyIsFatal ==
    en_pc \in {"idle", "loop", "done", "raised"} => config = TaxonomySections

\* a frontmatter key yields a date when it is there with a text that is not
\* empty
Yields(v) == v.present /\ ~v.null /\ v.text # <<>>

\* C19: the meeting date is the frontmatter's date when that yields one, else
\* its created when that yields one, else the YYYY-MM-DD pattern of the file
\* name when there is one, else the current date.
C19_MeetingDatePriority ==
    md_pc = "done" =>
        metadata.meeting_date =
            (IF Yields(frontmatter.date) THEN frontmatter.date.text
             ELSE IF Yields(frontmatter.created) THEN frontmatter.created.text
             ELSE IF DateSearch(file_name) # <<>> THEN DateSearch(file_name)
             ELSE Today)

\* C20: every attendee of the returned metadata is trimmed of surrounding
\* whitespace and none is empty.
C20_AttendeesTrimmedNonEmpty ==
    md_pc = "done" =>
        \A k \in 1..Len(metadata.attendees) :
            /\ metadata.attendees[k] # <<>>
            /\ Strip(metadata.attendees[k]) = metadata.attendees[k]

\* the number of rows this sync's append_rows calls wrote
RowsAppended ==
    LET RECURSIVE Sum(_)
        Sum(k) == IF k = 0 THEN 0 ELSE Len(appended[k]) + Sum(k - 1)
    IN  Sum(Len(appended))

\* C21: when the batch_append call of main() returns, synced + skipped is the
\* number of items it was given, after any number of rate-limit retries, and
\* synced is the number of rows the sync appended.
C21_ResultAccountsForInput ==
    sy_pc = "returned" =>
        /\ result.synced + result.skipped = Len(call_items)
        /\ result.synced = RowsAppended

\* C22: one batch_append call of main(), its retries included, appends the row
\* of each of its items at most once.
C22_EachRowAppendedOnce ==
    \A k \in 1..Len(call_items) :
        Cardinality({ <<a, j>> \in (1..Len(appended_items)) \X (1..Len(call_items)) :
                        j <= Len(appended_items[a]) /\ appended_items[a][j] = k }) <= 1

\* both calls met a store that answered every read and every write
CleanRuns ==
    /\ deduplicate
    /\ api_errors = <<>>
    /\ first_run.read # "failed"
    /\ title_read # "failed"

\* C23: with deduplication on and a store that answers, a second batch_append
\* of a batch that a first one has synced appends no row: it returns synced 0
\* and skips every item, whatever the titles.
C23_SecondSyncAppendsNothing ==
    (run = 2 /\ sy_pc = "returned" /\ CleanRuns) =>
        /\ result.synced = 0
        /\ result.skipped = Len(call_items)
        /\ Len(appended) = first_run.appends

\* an id that format_row generated in this sync: the item arrived without one
GeneratedHere(id) == id # NoId /\ id # EarlierId

\* C24: two items of one batch_append call that arrived without an id have
\* different ids once format_row has run, so that no two rows of the call
\* share their identity cell.
C24_GeneratedIdsDistinct ==
    \A i, j \in 1..Len(call_items) :
        (/\ i # j
         /\ GeneratedHere(call_items[i].id)
         /\ GeneratedHere(call_items[j].id))
        => call_items[i].id # call_items[j].id
====
